---- MODULE Spec2Model ----
(***************************************************************************)
(* Session scheduling and session lifecycle of the learner-circle backend. *)
(*                                                                         *)
(* Instants are minutes of local time counted from Monday 2024-01-01 00:00.*)
(* The database tables Sessions and Batches are the state; every route     *)
(* handler is one action.  routes/admin.js holds two revisions of the      *)
(* admin router; both are modelled, each under its own action name.        *)
(***************************************************************************)
EXTENDS Integers, Sequences, FiniteSets, TLC

VARIABLES sessions, batches, last, gen, nops, reqs, enrollments

vars == <<sessions, batches, last, gen, nops, reqs, enrollments>>

----------------------------------------------------------------------------
(* Bounds of the model *)

\* number of requests served in one behaviour
MaxOps == 3
\* largest total_sessions a request asks for
MaxCount == 2
\* max_students of the batches the requests create
MaxStudents == 1
\* requests followed one await at a time in one behaviour
MaxReqs == 2

----------------------------------------------------------------------------
(* Calendar arithmetic of JS Date / moment, local time, no DST *)

MinPerHour == 60
MinPerDay == 24 * MinPerHour

\* day index of the first day of each month, 2024-01 .. 2026-01
MonthStart ==
  <<0, 31, 60, 91, 121, 152, 182, 213, 244, 274, 305, 335,
    366, 397, 425, 456, 486, 517, 547, 578, 609, 639, 670, 700, 731>>

DayOf(t) == t \div MinPerDay
TimeOfDay(t) == t % MinPerDay
\* Date.getDay(): Sunday = 0; day 0 is a Monday
getDay(d) == (d + 1) % 7
\* the month index of every day of the calendar
MonthIndexOf ==
  [d \in 0..(MonthStart[Len(MonthStart)] - 1) |->
     CHOOSE i \in 1..(Len(MonthStart) - 1) : MonthStart[i] <= d /\ d < MonthStart[i + 1]]
MonthIndex(d) == MonthIndexOf[d]
\* Date.getDate(): day of the month, 1-based
getDate(d) == d - MonthStart[MonthIndex(d)] + 1
\* Date.setDate(n) on a date of month index mi: overflow rolls into later months
setDate(mi, n) == MonthStart[mi] + n - 1
\* Date.setHours(h, m, 0, 0) / moment.hour(h).minute(m).second(0)
setHours(d, h, m) == d * MinPerDay + h * MinPerHour + m

dayMap ==
  [Sunday |-> 0, Monday |-> 1, Tuesday |-> 2, Wednesday |-> 3,
   Thursday |-> 4, Friday |-> 5, Saturday |-> 6]

dayNames ==
  <<"Sunday", "Monday", "Tuesday", "Wednesday", "Thursday", "Friday", "Saturday">>

\* moment.format('dddd')
dayName(d) == dayNames[getDay(d) + 1]

Ceil(a, b) == (a + b - 1) \div b

----------------------------------------------------------------------------
(* Session creation loop of POST /batches, first revision *)

Draft(batch_id, n, topic, t, tutor) ==
  [batch_id |-> batch_id, session_number |-> n, curriculum_topic |-> topic,
   scheduled_datetime |-> t, assigned_tutor_id |-> tutor, status |-> "Scheduled",
   attendance |-> {}, tutor_notes |-> <<>>]

\* the date computed for one schedule item in week currentWeek
sessionDateOf(startDate, currentWeek, scheduleItem) ==
  LET startDay == DayOf(startDate)
      startOfWeek == setDate(MonthIndex(startDay), getDate(startDay) + currentWeek * 7)
      daysToAdd == (dayMap[scheduleItem.day] - getDay(startOfWeek) + 7) % 7
      sessionDay == setDate(MonthIndex(startDay), getDate(startOfWeek) + daysToAdd)
  IN setHours(sessionDay, scheduleItem.hour, scheduleItem.minute)

RECURSIVE forSchedule(_, _, _, _, _, _, _, _)
forSchedule(batch_id, tutor, startDate, schedule, sessionCount, currentWeek, i, acc) ==
  IF i > Len(schedule) \/ Len(acc) + 1 > sessionCount
  THEN acc
  ELSE LET sessionDate == sessionDateOf(startDate, currentWeek, schedule[i])
           sessionNumber == Len(acc) + 1
       IN forSchedule(batch_id, tutor, startDate, schedule, sessionCount, currentWeek, i + 1,
             IF sessionDate >= startDate
             THEN Append(acc, Draft(batch_id, sessionNumber, <<"Session", sessionNumber>>,
                                    sessionDate, tutor))
             ELSE acc)

RECURSIVE whileWeeks(_, _, _, _, _, _, _, _)
whileWeeks(batch_id, tutor, startDate, schedule, sessionCount, maxWeeks, currentWeek, acc) ==
  IF Len(acc) + 1 <= sessionCount /\ currentWeek < maxWeeks
  THEN whileWeeks(batch_id, tutor, startDate, schedule, sessionCount, maxWeeks, currentWeek + 1,
          forSchedule(batch_id, tutor, startDate, schedule, sessionCount, currentWeek, 1, acc))
  ELSE acc

createSessions(batch_id, tutor, startDate, schedule, sessionCount) ==
  whileWeeks(batch_id, tutor, startDate, schedule, sessionCount,
             Ceil(sessionCount, Len(schedule)), 0, <<>>)

----------------------------------------------------------------------------
(* services/scheduling.js: SchedulingService *)

BeforeMin == 30
AfterMin == 90
SearchDays == 14
MaxMonths == 12
OpenHour == 9
CloseHour == 21

NoDate == 0 - 1

indianHolidays == {<<1, 26>>, <<8, 15>>, <<10, 2>>}

\* dateTime.format('MM-DD') is looked up in the holiday list
isHoliday(dateTime) ==
  LET d == DayOf(dateTime)
  IN <<((MonthIndex(d) - 1) % 12) + 1, getDate(d)>> \in indianHolidays

hasTutorConflict(S, dateTime, tutorId) ==
  \E x \in DOMAIN S :
     /\ S[x].assigned_tutor_id = tutorId
     /\ S[x].scheduled_datetime >= dateTime - BeforeMin
     /\ S[x].scheduled_datetime <= dateTime + AfterMin
     /\ S[x].status \in {"Scheduled", "Completed"}

isValidSessionDateTime(S, dateTime, tutorId) ==
  LET hour == TimeOfDay(dateTime) \div MinPerHour
  IN IF isHoliday(dateTime) THEN FALSE
     ELSE IF hasTutorConflict(S, dateTime, tutorId) THEN FALSE
     ELSE IF hour < OpenHour \/ hour > CloseHour THEN FALSE
     ELSE TRUE

\* schedule.find(s => s.day === dayName): index of the first entry of that day, 0 if none
findItem(schedule, name) ==
  IF \E k \in 1..Len(schedule) : schedule[k].day = name
  THEN CHOOSE k \in 1..Len(schedule) :
          /\ schedule[k].day = name
          /\ \A j \in 1..(k - 1) : schedule[j].day # name
  ELSE 0

RECURSIVE searchFrom(_, _, _, _)
searchFrom(searchDate, schedule, now, i) ==
  IF i >= SearchDays THEN NoDate
  ELSE LET k == findItem(schedule, dayName(DayOf(searchDate)))
           sessionDateTime == setHours(DayOf(searchDate), schedule[k].hour, schedule[k].minute)
       IN IF k # 0 /\ sessionDateTime > now
          THEN sessionDateTime
          ELSE searchFrom(searchDate + MinPerDay, schedule, now, i + 1)

findNextValidSessionDate(fromDate, schedule, now) ==
  searchFrom(fromDate, schedule, now, 0)

\* moment.diff(other, 'months'): whole calendar months from b to a, a >= b
diffMonths(a, b) ==
  LET whole == MonthIndex(DayOf(a)) - MonthIndex(DayOf(b))
      pa == getDate(DayOf(a)) * MinPerDay + TimeOfDay(a)
      pb == getDate(DayOf(b)) * MinPerDay + TimeOfDay(b)
  IN IF pa < pb THEN whole - 1 ELSE whole

getCurriculumTopic(curriculum, sessionNumber) ==
  IF \E k \in 1..Len(curriculum) : curriculum[k].session = sessionNumber
  THEN LET k == CHOOSE k \in 1..Len(curriculum) :
                   /\ curriculum[k].session = sessionNumber
                   /\ \A j \in 1..(k - 1) : curriculum[j].session # sessionNumber
       IN curriculum[k].topic
  ELSE <<"Session", sessionNumber>>

\* one pass of the body of the while loop, up to the safety check
whileBody(S, batch_id, schedule, tutor_id, curriculum, now, currentDate, acc) ==
  LET sessionNumber == Len(acc) + 1
      nextSessionDate == findNextValidSessionDate(currentDate, schedule, now)
      placed == /\ nextSessionDate # NoDate
                /\ isValidSessionDateTime(S, nextSessionDate, tutor_id)
  IN [sessions |-> IF placed
                   THEN Append(acc, Draft(batch_id, sessionNumber,
                                          getCurriculumTopic(curriculum, sessionNumber),
                                          nextSessionDate, tutor_id))
                   ELSE acc,
      currentDate |-> IF nextSessionDate # NoDate
                      THEN nextSessionDate + MinPerDay
                      ELSE currentDate + MinPerDay]

RECURSIVE whileSessions(_, _, _, _, _, _, _, _, _, _)
whileSessions(S, batch_id, start_date, session_count, schedule, tutor_id, curriculum, now, currentDate, acc) ==
  IF Len(acc) + 1 > session_count
  THEN [ok |-> TRUE, sessions |-> acc]
  ELSE LET b == whileBody(S, batch_id, schedule, tutor_id, curriculum, now, currentDate, acc)
       IN IF diffMonths(b.currentDate, start_date) > MaxMonths
          THEN [ok |-> FALSE, sessions |-> <<>>]
          ELSE whileSessions(S, batch_id, start_date, session_count, schedule, tutor_id,
                             curriculum, now, b.currentDate, b.sessions)

generateBatchSessions(S, batch_id, start_date, session_count, schedule, tutor_id, curriculum, now) ==
  whileSessions(S, batch_id, start_date, session_count, schedule, tutor_id, curriculum, now,
                start_date, <<>>)

----------------------------------------------------------------------------
(* Request inputs *)

Tutors == {"t1", "t2"}

Item(d, h, m) == [day |-> d, hour |-> h, minute |-> m]

\* instants used below
Mon1 == setHours(0, 0, 0)
Tue2At18 == setHours(1, 18, 0)
Fri5At18 == setHours(4, 18, 0)

\* the courses table: out of scope of the routes modelled, read only
Courses ==
  [c1 |-> [name |-> "c1", total_sessions |-> 2,
           curriculum |-> <<[session |-> 1, topic |-> <<"Intro">>]>>]]

\* weekly patterns a batch request may carry
GenSchedules ==
  { <<Item("Tuesday", 18, 0)>>,
    <<Item("Tuesday", 18, 0), Item("Friday", 18, 0)>>,
    <<Item("Friday", 18, 0), Item("Tuesday", 18, 0)>>,
    <<Item("Tuesday", 18, 0), Item("Tuesday", 10, 0)>>,
    <<Item("Friday", 22, 0)>>,
    <<Item("Tuesday", 21, 30)>> }

\* start instants: a Monday, a Wednesday, a Tuesday evening, a Monday late in January
GenStarts == {Mon1, setHours(2, 0, 0), setHours(1, 20, 0), setHours(21, 0, 0)}

\* the clock at the time of the request
GenNows == {Mon1 - MinPerDay, setHours(2, 12, 0)}

\* sessions already in the database when a batch is generated
GenExisting ==
  { <<>>,
    <<[Draft(1, 1, <<"Session", 1>>, Tue2At18, "t1") EXCEPT !.batch_id = 1]>> }

NoGen == [revision |-> "none"]

\* the response of the last request: route, session or batch id, HTTP status,
\* and the cascaded_sessions count of the cascade route
Resp(op, id, code, cascaded) ==
  [op |-> op, id |-> id, code |-> code, cascaded |-> cascaded, rate |-> 0]

----------------------------------------------------------------------------
(* Generation on its own: the inputs are drawn in the initial state *)

GenInit ==
  /\ sessions \in GenExisting
  /\ batches = <<>>
  /\ last = Resp("none", 0, 0, 0)
  /\ nops = 0
  /\ reqs = <<>>
  /\ enrollments = <<>>
  /\ gen \in [revision : {"none"}, start_date : GenStarts, schedule : GenSchedules,
              session_count : 1..MaxCount, tutor_id : {"t1"}, now : GenNows,
              ok : {FALSE}, sessions : {<<>>}]

\* POST /batches, first revision: the session creation loop
GenerateLoop ==
  /\ gen.revision = "none"
  /\ gen' = [gen EXCEPT !.revision = "loop", !.ok = TRUE,
                        !.sessions = createSessions(0, gen.tutor_id, gen.start_date,
                                                    gen.schedule, gen.session_count)]
  /\ UNCHANGED <<sessions, batches, last, nops, reqs, enrollments>>

\* POST /batches, second revision: SchedulingService.generateBatchSessions
GenerateService ==
  /\ gen.revision = "none"
  /\ LET r == generateBatchSessions(sessions, 0, gen.start_date, gen.session_count,
                                    gen.schedule, gen.tutor_id, Courses.c1.curriculum, gen.now)
     IN gen' = [gen EXCEPT !.revision = "service", !.ok = r.ok, !.sessions = r.sessions]
  /\ UNCHANGED <<sessions, batches, last, nops, reqs, enrollments>>

GenNext == GenerateLoop \/ GenerateService

SpecGen == GenInit /\ [][GenNext]_vars

\* a generated instant falls on a (weekday, time-of-day) pair of the pattern
OnPattern(t, schedule) ==
  \E k \in 1..Len(schedule) :
     /\ getDay(DayOf(t)) = dayMap[schedule[k].day]
     /\ TimeOfDay(t) = schedule[k].hour * MinPerHour + schedule[k].minute

StrictlyIncreasing(seq) ==
  \A i \in 1..(Len(seq) - 1) : seq[i].scheduled_datetime < seq[i + 1].scheduled_datetime

\* C1: for every valid (startDate, non-empty pattern, targetCount >= 1) the
\* generation of a batch's sessions yields exactly targetCount date-times,
\* strictly increasing in session_number order, each on a (weekday, time)
\* pair of the pattern.
C1_GenerationExact ==
  gen.revision # "none" =>
     /\ gen.ok
     /\ Len(gen.sessions) = gen.session_count
     /\ StrictlyIncreasing(gen.sessions)
     /\ \A i \in 1..Len(gen.sessions) :
           /\ gen.sessions[i].session_number = i
           /\ OnPattern(gen.sessions[i].scheduled_datetime, gen.schedule)

----------------------------------------------------------------------------
(* The routes of the admin and tutor routers that write sessions *)

DefaultSessions == 8

Schedules == { <<Item("Tuesday", 18, 0), Item("Friday", 18, 0)>> }
Starts == {Mon1}
Nows == {Mon1 - MinPerDay}
CourseIds == {"c1", "c9"}
Reasons == {"", "sick"}

\* new_datetime values around the Friday session: both sides of both edges of
\* the conflict window
NewTimes ==
  {Fri5At18 - 120, Fri5At18 - AfterMin, Fri5At18 + BeforeMin, Fri5At18 + 60}
\* new_datetime values of the cascade route and of the general update
FreeTimes == {setHours(2, 10, 0), Fri5At18 + BeforeMin}

\* attendance objects, as sets of (student, mark) pairs
Attendances == { {}, {<<"studentA", "present">>, <<"studentB", "absent">>} }

Statuses == {"Scheduled", "Completed", "Cancelled", "Rescheduled"}

SessionIds == DOMAIN sessions
\* ids a request may name: the existing ones and one that does not exist
RequestIds == 1..(Len(sessions) + 1)

Init ==
  /\ sessions = <<>>
  /\ batches = <<>>
  /\ last = Resp("none", 0, 0, 0)
  /\ gen = NoGen
  /\ nops = 0
  /\ reqs = <<>>
  /\ enrollments = <<>>

\* Batch.findOne({where: {course_id}, order: batch_number DESC}) + 1
nextBatchNumber(course_id) ==
  LET nums == {batches[b].batch_number : b \in {x \in DOMAIN batches : batches[x].course_id = course_id}}
  IN IF nums = {} THEN 1 ELSE (CHOOSE n \in nums : \A m \in nums : m <= n) + 1

\* the row Batch.create writes
batchRow(course_id, batch_number, start_date, schedule, current_tutor_id, sessionCount) ==
  [course_id |-> course_id, batch_number |-> batch_number,
   start_date |-> start_date, current_tutor_id |-> current_tutor_id,
   max_students |-> MaxStudents,
   schedule |-> schedule, status |-> "Active", total_sessions |-> sessionCount,
   progress |-> [current_session |-> 1, completed_sessions |-> 0]]

newBatch(course_id, start_date, schedule, current_tutor_id, sessionCount) ==
  batchRow(course_id, nextBatchNumber(course_id), start_date, schedule, current_tutor_id,
           sessionCount)

\* total_sessions || course.total_sessions || 8 ; 0 stands for an absent field
countOf(total_sessions, course) ==
  IF total_sessions # 0 THEN total_sessions
  ELSE IF course.total_sessions # 0 THEN course.total_sessions
  ELSE DefaultSessions

\* POST /batches, first revision
CreateBatch(course_id, start_date, schedule, current_tutor_id, total_sessions) ==
  /\ nops < MaxOps
  /\ nops' = nops + 1
  /\ UNCHANGED <<gen, reqs, enrollments>>
  /\ IF course_id \notin DOMAIN Courses
     THEN /\ last' = Resp("createBatch", 0, 404, 0)
          /\ UNCHANGED <<sessions, batches>>
     ELSE LET sessionCount == countOf(total_sessions, Courses[course_id])
              id == Len(batches) + 1
          IN /\ batches' = Append(batches, newBatch(course_id, start_date, schedule,
                                                    current_tutor_id, sessionCount))
             /\ sessions' = sessions \o createSessions(id, current_tutor_id, start_date,
                                                       schedule, sessionCount)
             /\ last' = Resp("createBatch", id, 201, 0)

\* POST /batches, second revision: sessions come from the scheduling service
CreateBatchScheduled(course_id, start_date, schedule, current_tutor_id, total_sessions, now) ==
  /\ nops < MaxOps
  /\ nops' = nops + 1
  /\ UNCHANGED <<gen, reqs, enrollments>>
  /\ IF course_id \notin DOMAIN Courses
     THEN /\ last' = Resp("createBatchScheduled", 0, 404, 0)
          /\ UNCHANGED <<sessions, batches>>
     ELSE LET sessionCount == countOf(total_sessions, Courses[course_id])
              id == Len(batches) + 1
              r == generateBatchSessions(sessions, id, start_date, sessionCount, schedule,
                                         current_tutor_id, Courses[course_id].curriculum, now)
          IN /\ batches' = Append(batches, newBatch(course_id, start_date, schedule,
                                                    current_tutor_id, sessionCount))
             /\ sessions' = IF r.ok THEN sessions \o r.sessions ELSE sessions
             /\ last' = Resp("createBatchScheduled", id, IF r.ok THEN 201 ELSE 500, 0)

\* request bodies of the general updates: one model attribute each
UpdateBodies ==
  {[status |-> st] : st \in Statuses}
  \cup {[scheduled_datetime |-> t] : t \in FreeTimes}
  \cup {[session_number |-> n] : n \in 1..MaxCount}
  \cup {[attendance |-> a] : a \in Attendances}
  \cup {[tutor_notes |-> << <<"note">> >>]}

BatchBodies ==
  {[status |-> st] : st \in {"Active", "Completed", "Paused", "Cancelled"}}
  \cup {[current_tutor_id |-> t] : t \in Tutors}

\* Model.update(values, {where: {id}}): every attribute of the body is written
applyBody(row, body) ==
  [f \in DOMAIN row |-> IF f \in DOMAIN body THEN body[f] ELSE row[f]]

\* PUT /batches/:id (both revisions)
UpdateBatch(id, body) ==
  /\ nops < MaxOps
  /\ nops' = nops + 1
  /\ UNCHANGED <<sessions, gen, reqs, enrollments>>
  /\ IF id \notin DOMAIN batches
     THEN /\ last' = Resp("updateBatch", id, 404, 0)
          /\ batches' = batches
     ELSE /\ batches' = [batches EXCEPT ![id] = applyBody(@, body)]
          /\ last' = Resp("updateBatch", id, 200, 0)

\* PUT /sessions/:id
UpdateSession(id, body) ==
  /\ nops < MaxOps
  /\ nops' = nops + 1
  /\ UNCHANGED <<batches, gen, reqs, enrollments>>
  /\ IF id \notin SessionIds
     THEN /\ last' = Resp("updateSession", id, 404, 0)
          /\ sessions' = sessions
     ELSE /\ sessions' = [sessions EXCEPT ![id] = applyBody(@, body)]
          /\ last' = Resp("updateSession", id, 200, 0)

\* a cascade that forgets the status filter
subsequentSessionsAnyStatus(S, id) ==
  {x \in DOMAIN S : /\ S[x].batch_id = S[id].batch_id
                    /\ S[x].session_number > S[id].session_number}

\* the sessions the cascade shifts
subsequentSessions(S, id) ==
  {x \in DOMAIN S : /\ S[x].batch_id = S[id].batch_id
                    /\ S[x].session_number > S[id].session_number
                    /\ S[x].status = "Scheduled"}

\* PUT /sessions/:id/reschedule, first revision: cascade
RescheduleCascade(id, new_datetime, reason) ==
  /\ nops < MaxOps
  /\ nops' = nops + 1
  /\ UNCHANGED <<batches, gen, reqs, enrollments>>
  /\ IF id \notin SessionIds
     THEN /\ last' = Resp("rescheduleCascade", id, 404, 0)
          /\ sessions' = sessions
     ELSE LET timeDifference == new_datetime - sessions[id].scheduled_datetime
              moved == [sessions EXCEPT ![id].scheduled_datetime = new_datetime,
                                        ![id].status = "Rescheduled",
                                        ![id].tutor_notes =
                                           << <<IF reason # "" THEN reason
                                                ELSE "Rescheduled by admin">> >>]
              later == IF timeDifference # 0 THEN subsequentSessions(moved, id) ELSE {}
          IN /\ sessions' = [x \in DOMAIN moved |->
                               IF x \in later
                               THEN [moved[x] EXCEPT !.scheduled_datetime = @ + timeDifference]
                               ELSE moved[x]]
             /\ last' = Resp("rescheduleCascade", id, 200, Cardinality(later))

\* the cascade route when the update of one subsequent session is rejected by
\* the database: the moved session and the sessions of done, those updated
\* before the rejected one (findAll has no ORDER BY), keep their new values;
\* the catch block answers 500
RescheduleCascadeFails(id, new_datetime, reason, done) ==
  /\ nops < MaxOps
  /\ nops' = nops + 1
  /\ UNCHANGED <<batches, gen, reqs, enrollments>>
  /\ id \in SessionIds
  /\ LET timeDifference == new_datetime - sessions[id].scheduled_datetime
         moved == [sessions EXCEPT ![id].scheduled_datetime = new_datetime,
                                   ![id].status = "Rescheduled",
                                   ![id].tutor_notes =
                                      << <<IF reason # "" THEN reason
                                           ELSE "Rescheduled by admin">> >>]
         later == IF timeDifference # 0 THEN subsequentSessions(moved, id) ELSE {}
     IN /\ done \subseteq later
        /\ done # later
        /\ sessions' = [x \in DOMAIN moved |->
                          IF x \in done
                          THEN [moved[x] EXCEPT !.scheduled_datetime = @ + timeDifference]
                          ELSE moved[x]]
        /\ last' = Resp("rescheduleCascade", id, 500, 0)

\* a conflict query that never finds a session
conflictSessionNever(S, id, new_datetime) == FALSE

\* the conflict query of the second reschedule revision
conflictSession(S, id, new_datetime) ==
  \E x \in DOMAIN S :
     /\ S[x].assigned_tutor_id = S[id].assigned_tutor_id
     /\ S[x].scheduled_datetime >= new_datetime - BeforeMin
     /\ S[x].scheduled_datetime <= new_datetime + AfterMin
     /\ S[x].status = "Scheduled"
     /\ x # id

reasonText(reason) == IF reason # "" THEN reason ELSE "No reason provided"

\* PUT /sessions/:id/reschedule, second revision: conflict check
RescheduleSession(id, new_datetime, reason) ==
  /\ nops < MaxOps
  /\ nops' = nops + 1
  /\ UNCHANGED <<batches, gen, reqs, enrollments>>
  /\ IF id \notin SessionIds
     THEN /\ last' = Resp("reschedule", id, 404, 0)
          /\ sessions' = sessions
     ELSE IF conflictSession(sessions, id, new_datetime)
     THEN /\ last' = Resp("reschedule", id, 400, 0)
          /\ sessions' = sessions
     ELSE /\ sessions' = [sessions EXCEPT
                            ![id].scheduled_datetime = new_datetime,
                            ![id].status = "Rescheduled",
                            ![id].tutor_notes = Append(@, <<"Rescheduled", reasonText(reason)>>)]
          /\ last' = Resp("reschedule", id, 200, 0)

\* a rate that drops the fraction instead of rounding
attendanceRateTruncated(attendance) ==
  LET totalStudents == Cardinality(attendance)
      presentCount == Cardinality({e \in attendance : e[2] = "present"})
  IN IF totalStudents > 0 THEN (100 * presentCount) \div totalStudents ELSE 0

\* totalStudents > 0 ? Math.round((presentCount / totalStudents) * 100) : 0,
\* Math.round rounding halves up
attendanceRate(attendance) ==
  LET totalStudents == Cardinality(attendance)
      presentCount == Cardinality({e \in attendance : e[2] = "present"})
  IN IF totalStudents > 0
     THEN (200 * presentCount + totalStudents) \div (2 * totalStudents)
     ELSE 0

\* PUT /sessions/:id/reschedule, second revision, up to the decision: findByPk
\* and the conflict query.  A request that passes holds the row it read and
\* waits for its update.
BeginReschedule(id, new_datetime, reason) ==
  /\ nops < MaxOps
  /\ Len(reqs) < MaxReqs
  /\ nops' = nops + 1
  /\ UNCHANGED <<sessions, batches, gen, enrollments>>
  /\ IF id \notin SessionIds
     THEN /\ last' = Resp("reschedule", id, 404, 0)
          /\ reqs' = reqs
     ELSE IF conflictSession(sessions, id, new_datetime)
     THEN /\ last' = Resp("reschedule", id, 400, 0)
          /\ reqs' = reqs
     ELSE /\ reqs' = Append(reqs, [revision |-> "reschedule", id |-> id,
                                   new_datetime |-> new_datetime, reason |-> reason,
                                   tutor_notes |-> sessions[id].tutor_notes,
                                   pc |-> "update"])
          /\ last' = last

\* session.update of a request that passed the conflict query: the notes are
\* built from the row read before the query
WriteReschedule(r) ==
  /\ reqs[r].pc = "update"
  /\ UNCHANGED <<batches, gen, nops, enrollments>>
  /\ sessions' = [sessions EXCEPT
                    ![reqs[r].id].scheduled_datetime = reqs[r].new_datetime,
                    ![reqs[r].id].status = "Rescheduled",
                    ![reqs[r].id].tutor_notes =
                       Append(reqs[r].tutor_notes,
                              <<"Rescheduled", reasonText(reqs[r].reason)>>)]
  /\ reqs' = [reqs EXCEPT ![r].pc = "done"]
  /\ last' = Resp("reschedule", reqs[r].id, 200, 0)

\* POST /sessions/:id/attendance of the admin router
MarkAttendance(id, attendance) ==
  /\ nops < MaxOps
  /\ nops' = nops + 1
  /\ UNCHANGED <<batches, gen, reqs, enrollments>>
  /\ IF id \notin SessionIds
     THEN /\ last' = Resp("attendance", id, 404, 0)
          /\ sessions' = sessions
     ELSE /\ sessions' = [sessions EXCEPT ![id].attendance = attendance,
                                          ![id].status = "Completed"]
          /\ last' = [Resp("attendance", id, 200, 0) EXCEPT
                        !.rate = attendanceRate(attendance)]

\* POST /sessions/:id/attendance of the tutor router
TutorMarkAttendance(tutorId, id, attendance) ==
  /\ nops < MaxOps
  /\ nops' = nops + 1
  /\ UNCHANGED <<batches, gen, reqs, enrollments>>
  /\ IF id \notin SessionIds \/ sessions[id].assigned_tutor_id # tutorId
     THEN /\ last' = Resp("tutorAttendance", id, 404, 0)
          /\ sessions' = sessions
     ELSE /\ sessions' = [sessions EXCEPT ![id].attendance = attendance,
                                          ![id].status = "Completed"]
          /\ last' = Resp("tutorAttendance", id, 200, 0)

\* Session.count({where: {batch_id}}) of the student progress routes
totalSessions(S, b) == Cardinality({x \in DOMAIN S : S[x].batch_id = b})

\* Session.count({where: {batch_id, status: 'Completed'}})
completedSessions(S, b) ==
  Cardinality({x \in DOMAIN S : S[x].batch_id = b /\ S[x].status = "Completed"})

\* a cancel route that rejects nothing
cannotCancelNever(status) == FALSE

\* if (session.status === 'Completed') return res.status(400)
cannotCancel(status) == status = "Completed"

\* a cancel that writes the reason over the notes
cancelNotesOverwrite(tutor_notes, reason) ==
  << <<"Cancelled", reasonText(reason)>> >>

\* tutor_notes ? `${tutor_notes}\n\nCancelled: ${reason || ...}`
\*             : `Cancelled: ${reason || ...}`
cancelNotes(tutor_notes, reason) ==
  Append(tutor_notes, <<"Cancelled", reasonText(reason)>>)

\* PUT /sessions/:id/cancel
CancelSession(id, reason) ==
  /\ nops < MaxOps
  /\ nops' = nops + 1
  /\ UNCHANGED <<batches, gen, reqs, enrollments>>
  /\ IF id \notin SessionIds
     THEN /\ last' = Resp("cancel", id, 404, 0)
          /\ sessions' = sessions
     ELSE IF cannotCancel(sessions[id].status)
     THEN /\ last' = Resp("cancel", id, 400, 0)
          /\ sessions' = sessions
     ELSE /\ sessions' = [sessions EXCEPT
                            ![id].status = "Cancelled",
                            ![id].tutor_notes = cancelNotes(@, reason)]
          /\ last' = Resp("cancel", id, 200, 0)

Next ==
  \/ \E c \in CourseIds, sd \in Starts, sc \in Schedules, t \in Tutors, n \in 0..MaxCount :
        CreateBatch(c, sd, sc, t, n)
  \/ \E c \in CourseIds, sd \in Starts, sc \in Schedules, t \in Tutors, n \in 0..MaxCount,
        now \in Nows :
        CreateBatchScheduled(c, sd, sc, t, n, now)
  \/ \E id \in 1..(Len(batches) + 1), body \in BatchBodies : UpdateBatch(id, body)
  \/ \E id \in RequestIds, body \in UpdateBodies : UpdateSession(id, body)
  \/ \E id \in RequestIds, t \in FreeTimes, r \in Reasons : RescheduleCascade(id, t, r)
  \/ \E id \in RequestIds, t \in NewTimes, r \in Reasons : RescheduleSession(id, t, r)
  \/ \E id \in RequestIds, a \in Attendances : MarkAttendance(id, a)
  \/ \E tu \in Tutors, id \in RequestIds, a \in Attendances : TutorMarkAttendance(tu, id, a)
  \/ \E id \in RequestIds, r \in Reasons : CancelSession(id, r)

Spec == Init /\ [][Next]_vars

\* the cascade route over every stored shape of the sessions: creation, the
\* general update (any status, number or time) and the cascade itself
CascadeNext ==
  \/ \E c \in CourseIds, sd \in Starts, sc \in Schedules, t \in Tutors, n \in 0..MaxCount :
        CreateBatch(c, sd, sc, t, n)
  \/ \E id \in RequestIds, body \in UpdateBodies : UpdateSession(id, body)
  \/ \E id \in RequestIds, t \in FreeTimes, r \in Reasons : RescheduleCascade(id, t, r)

SpecCascade == Init /\ [][CascadeNext]_vars

\* the cancel route over sessions of every status and with every kind of
\* notes: creation, attendance, the general update and the cancel itself
CancelNext ==
  \/ \E c \in CourseIds, sd \in Starts, sc \in Schedules, t \in Tutors, n \in 0..MaxCount :
        CreateBatch(c, sd, sc, t, n)
  \/ \E id \in RequestIds, a \in Attendances : MarkAttendance(id, a)
  \/ \E id \in RequestIds, body \in UpdateBodies : UpdateSession(id, body)
  \/ \E id \in RequestIds, r \in Reasons : CancelSession(id, r)

SpecCancel == Init /\ [][CancelNext]_vars

\* attendance maps of no, two and three students
AttendanceMaps ==
  UNION {[who -> {"present", "absent"}] :
           who \in {{}, {"studentA", "studentB"},
                    {"studentA", "studentB", "studentC"}}}

entriesOf(f) == {<<k, f[k]>> : k \in DOMAIN f}

\* creation and the admin attendance route
AttendanceNext ==
  \/ \E c \in CourseIds, sd \in Starts, sc \in Schedules, n \in 1..MaxCount :
        CreateBatch(c, sd, sc, "t1", n)
  \/ \E id \in RequestIds, f \in AttendanceMaps : MarkAttendance(id, entriesOf(f))

SpecAttendance == Init /\ [][AttendanceNext]_vars

\* creation and concurrent requests to the conflict-checking reschedule route
RaceNext ==
  \/ \E n \in 1..MaxCount : CreateBatch("c1", Mon1, CHOOSE sc \in Schedules : TRUE, "t1", n)
  \/ \E id \in RequestIds, t \in NewTimes : BeginReschedule(id, t, "")
  \/ \E r \in DOMAIN reqs : WriteReschedule(r)

SpecRace == Init /\ [][RaceNext]_vars

\* user ids a request may name: two active students and one id of no student
Students == {"s1", "s2"}

UserIds == Students \cup {"u9"}

\* the Active enrollments of a batch, as positions in the table
activeEnrollments(E, batchId) ==
  {i \in DOMAIN E : E[i].batch_id = batchId /\ E[i].status = "Active"}

\* POST /batches/:id/enrollments up to the capacity decision: Batch.findByPk
\* with the Active enrollments included
BeginEnroll(batchId, student_id) ==
  /\ Len(reqs) < MaxReqs
  /\ UNCHANGED <<sessions, batches, gen, nops, enrollments>>
  /\ IF batchId \notin DOMAIN batches
     THEN /\ last' = Resp("enroll", batchId, 404, 0)
          /\ reqs' = reqs
     ELSE IF batches[batchId].status # "Active"
     THEN /\ last' = Resp("enroll", batchId, 400, 0)
          /\ reqs' = reqs
     ELSE IF Cardinality(activeEnrollments(enrollments, batchId))
               >= batches[batchId].max_students
     THEN /\ last' = Resp("enroll", batchId, 400, 0)
          /\ reqs' = reqs
     ELSE /\ reqs' = Append(reqs, [revision |-> "enroll", batch_id |-> batchId,
                                   student_id |-> student_id, pc |-> "student"])
          /\ last' = last

\* User.findOne({where: {id: student_id, role: 'student', is_active: true}})
FindStudent(r) ==
  /\ reqs[r].pc = "student"
  /\ UNCHANGED <<sessions, batches, gen, nops, enrollments>>
  /\ IF reqs[r].student_id \notin Students
     THEN /\ reqs' = [reqs EXCEPT ![r].pc = "failed"]
          /\ last' = Resp("enroll", reqs[r].batch_id, 404, 0)
     ELSE /\ reqs' = [reqs EXCEPT ![r].pc = "existing"]
          /\ last' = last

\* Enrollment.findOne({where: {batch_id, student_id, status: 'Active'}})
FindExisting(r) ==
  /\ reqs[r].pc = "existing"
  /\ UNCHANGED <<sessions, batches, gen, nops, enrollments>>
  /\ IF \E i \in activeEnrollments(enrollments, reqs[r].batch_id) :
           enrollments[i].student_id = reqs[r].student_id
     THEN /\ reqs' = [reqs EXCEPT ![r].pc = "failed"]
          /\ last' = Resp("enroll", reqs[r].batch_id, 400, 0)
     ELSE /\ reqs' = [reqs EXCEPT ![r].pc = "create"]
          /\ last' = last

\* Enrollment.create and the 201 response
CreateEnrollment(r) ==
  /\ reqs[r].pc = "create"
  /\ UNCHANGED <<sessions, batches, gen, nops>>
  /\ enrollments' = Append(enrollments,
                           [batch_id |-> reqs[r].batch_id,
                            student_id |-> reqs[r].student_id,
                            payment_status |-> "Pending", status |-> "Active"])
  /\ reqs' = [reqs EXCEPT ![r].pc = "done"]
  /\ last' = Resp("enroll", reqs[r].batch_id, 201, 0)

\* creation, status changes and enrollment requests one await at a time
EnrollNext ==
  \/ CreateBatch("c1", Mon1, CHOOSE sc \in Schedules : TRUE, "t1", 1)
  \/ \E id \in DOMAIN batches, st \in {"Active", "Paused"} :
        UpdateBatch(id, [status |-> st])
  \/ \E b \in 1..(Len(batches) + 1), u \in UserIds : BeginEnroll(b, u)
  \/ \E r \in DOMAIN reqs : FindStudent(r)
  \/ \E r \in DOMAIN reqs : FindExisting(r)
  \/ \E r \in DOMAIN reqs : CreateEnrollment(r)

SpecEnroll == Init /\ [][EnrollNext]_vars

\* the cascade route with database failures
FailureNext ==
  \/ \E c \in CourseIds, sd \in Starts, sc \in Schedules, t \in Tutors, n \in 0..MaxCount :
        CreateBatch(c, sd, sc, t, n)
  \/ \E id \in RequestIds, t \in FreeTimes, r \in Reasons : RescheduleCascade(id, t, r)
  \/ \E id \in RequestIds, t \in FreeTimes, r \in Reasons, done \in SUBSET SessionIds :
        RescheduleCascadeFails(id, t, r, done)

SpecFailure == Init /\ [][FailureNext]_vars

----------------------------------------------------------------------------
(* POST /batches request by request: every await of the handler is a point  *)
(* where another request may run.  The handler opens no transaction.        *)


\* weekly patterns of the requests: one inside and one outside business hours
CreateSchedules ==
  { <<Item("Tuesday", 18, 0), Item("Friday", 18, 0)>>, <<Item("Friday", 22, 0)>> }

\* Course.findByPk and Batch.findOne (last batch of the course): the request
\* holds the batch_number it computed until it inserts
BeginCreate(revision, course_id, start_date, schedule, current_tutor_id, total_sessions) ==
  /\ Len(reqs) < MaxReqs
  /\ UNCHANGED <<sessions, batches, gen, nops, enrollments>>
  /\ IF course_id \notin DOMAIN Courses
     THEN /\ last' = Resp(revision, 0, 404, 0)
          /\ reqs' = reqs
     ELSE /\ reqs' = Append(reqs,
                       [revision |-> revision, course_id |-> course_id,
                        start_date |-> start_date, schedule |-> schedule,
                        current_tutor_id |-> current_tutor_id,
                        sessionCount |-> countOf(total_sessions, Courses[course_id]),
                        batch_number |-> nextBatchNumber(course_id),
                        batch_id |-> 0, pc |-> "create"])
          /\ last' = last

\* Batch.create
InsertBatch(r) ==
  /\ reqs[r].pc = "create"
  /\ batches' = Append(batches,
                       batchRow(reqs[r].course_id, reqs[r].batch_number, reqs[r].start_date,
                                reqs[r].schedule, reqs[r].current_tutor_id,
                                reqs[r].sessionCount))
  /\ reqs' = [reqs EXCEPT ![r].pc = "sessions", ![r].batch_id = Len(batches) + 1]
  /\ UNCHANGED <<sessions, last, gen, nops, enrollments>>

\* session generation and Session.bulkCreate; dbOk is whether the insert of
\* the sessions succeeds.  The catch block answers 500 and undoes nothing.
PersistSessions(r, now, dbOk) ==
  /\ reqs[r].pc = "sessions"
  /\ UNCHANGED <<batches, gen, nops, enrollments>>
  /\ LET q == reqs[r]
         g == IF q.revision = "createBatch"
              THEN [ok |-> TRUE,
                    sessions |-> createSessions(q.batch_id, q.current_tutor_id, q.start_date,
                                                q.schedule, q.sessionCount)]
              ELSE generateBatchSessions(sessions, q.batch_id, q.start_date, q.sessionCount,
                                         q.schedule, q.current_tutor_id,
                                         Courses[q.course_id].curriculum, now)
     IN IF dbOk /\ g.ok
        THEN /\ sessions' = sessions \o g.sessions
             /\ reqs' = [reqs EXCEPT ![r].pc = "done"]
             /\ last' = Resp(q.revision, q.batch_id, 201, 0)
        ELSE /\ sessions' = sessions
             /\ reqs' = [reqs EXCEPT ![r].pc = "failed"]
             /\ last' = Resp(q.revision, q.batch_id, 500, 0)

CreateNext ==
  \/ \E rev \in {"createBatch", "createBatchScheduled"}, c \in CourseIds, sd \in Starts,
        sc \in CreateSchedules, n \in 1..MaxCount :
        BeginCreate(rev, c, sd, sc, "t1", n)
  \/ \E r \in DOMAIN reqs : InsertBatch(r)
  \/ \E r \in DOMAIN reqs, now \in Nows, dbOk \in BOOLEAN : PersistSessions(r, now, dbOk)

SpecCreate == Init /\ [][CreateNext]_vars

----------------------------------------------------------------------------
(* Session generation pass by pass of its loop, to follow its termination *)

\* currentWeek is kept modulo MaxWeeks + 1.  For a non-empty schedule the loop
\* ends before currentWeek reaches MaxCount; for an empty one maxWeeks is
\* Infinity and nothing reads currentWeek, so the wrap-around changes nothing.
MaxWeeks == MaxCount + 1

\* schedule: body('schedule').isArray() admits the empty array
TermSchedules == GenSchedules \cup {<<>>}

TermInit ==
  /\ sessions \in GenExisting
  /\ batches = <<>>
  /\ last = Resp("none", 0, 0, 0)
  /\ nops = 0
  /\ reqs = <<>>
  /\ enrollments = <<>>
  /\ gen \in {[revision |-> rv, start_date |-> sd, schedule |-> sc, session_count |-> n,
                tutor_id |-> "t1", now |-> now, ok |-> FALSE, sessions |-> <<>>,
                currentWeek |-> 0, currentDate |-> sd] :
                  rv \in {"loopRunning", "serviceRunning"}, sd \in GenStarts,
                  sc \in TermSchedules, n \in 1..MaxCount, now \in GenNows}

\* while (sessionNumber <= sessionCount && currentWeek < maxWeeks), with
\* maxWeeks = Math.ceil(sessionCount / schedule.length): Infinity for length 0
loopContinues(g) ==
  /\ Len(g.sessions) + 1 <= g.session_count
  /\ IF Len(g.schedule) = 0 THEN TRUE
     ELSE g.currentWeek < Ceil(g.session_count, Len(g.schedule))

\* one pass of the while loop of the first revision
LoopWeek ==
  /\ gen.revision = "loopRunning"
  /\ loopContinues(gen)
  /\ gen' = [gen EXCEPT !.sessions = forSchedule(0, gen.tutor_id, gen.start_date, gen.schedule,
                                                  gen.session_count, gen.currentWeek, 1, @),
                        !.currentWeek = (@ + 1) % (MaxWeeks + 1)]
  /\ UNCHANGED <<sessions, batches, last, nops, reqs, enrollments>>

\* the loop of the first revision is left
LoopReturn ==
  /\ gen.revision = "loopRunning"
  /\ ~loopContinues(gen)
  /\ gen' = [gen EXCEPT !.revision = "loop", !.ok = TRUE]
  /\ UNCHANGED <<sessions, batches, last, nops, reqs, enrollments>>

\* one pass of the while loop of generateBatchSessions, safety check included
ServicePass ==
  /\ gen.revision = "serviceRunning"
  /\ Len(gen.sessions) + 1 <= gen.session_count
  /\ \E b \in {whileBody(sessions, 0, gen.schedule, gen.tutor_id, Courses.c1.curriculum,
                           gen.now, gen.currentDate, gen.sessions)} :
        IF diffMonths(b.currentDate, gen.start_date) > MaxMonths
        THEN gen' = [gen EXCEPT !.revision = "service", !.ok = FALSE, !.sessions = <<>>]
        ELSE gen' = [gen EXCEPT !.sessions = b.sessions, !.currentDate = b.currentDate]
  /\ UNCHANGED <<sessions, batches, last, nops, reqs, enrollments>>

\* generateBatchSessions returns
ServiceReturn ==
  /\ gen.revision = "serviceRunning"
  /\ Len(gen.sessions) + 1 > gen.session_count
  /\ gen' = [gen EXCEPT !.revision = "service", !.ok = TRUE]
  /\ UNCHANGED <<sessions, batches, last, nops, reqs, enrollments>>

TermNext == LoopWeek \/ LoopReturn \/ ServicePass \/ ServiceReturn

\* a running handler is not suspended for ever
SpecTerm == TermInit /\ [][TermNext]_vars /\ WF_vars(TermNext)

----------------------------------------------------------------------------
(* Properties *)

\* t lies in the conflict window of the candidate instant c
InWindow(t, c) == t >= c - BeforeMin /\ t <= c + AfterMin

BatchSessions(S, b) == {x \in DOMAIN S : S[x].batch_id = b}

AllTimes == NewTimes \cup FreeTimes

\* C2: within one batch session_number values are unique in every reachable
\* state, after batch creation followed by any sequence of attendance
\* marking, cancel, reschedule and general session update operations.
C2_UniqueSessionNumbers ==
  \A x, y \in SessionIds :
     (x # y /\ sessions[x].batch_id = sessions[y].batch_id)
        => sessions[x].session_number # sessions[y].session_number

\* C3: status Rescheduled is terminal: once a session is Rescheduled no later
\* operation changes its status.
C3_RescheduledTerminal ==
  [][\A x \in SessionIds :
        sessions[x].status = "Rescheduled" => sessions'[x].status = "Rescheduled"]_vars

\* C4: a cascade reschedule that moves session N by D shifts every Scheduled
\* session of the batch with session_number > N by exactly D and leaves every
\* other session (smaller number, not Scheduled, other batch) unchanged.
C4_CascadeFrame ==
  [][\A id \in SessionIds, t \in FreeTimes, r \in Reasons :
        (last'.op = "rescheduleCascade" /\ RescheduleCascade(id, t, r)) =>
           LET D == t - sessions[id].scheduled_datetime
           IN \A x \in SessionIds \ {id} :
                 IF /\ sessions[x].batch_id = sessions[id].batch_id
                    /\ sessions[x].session_number > sessions[id].session_number
                    /\ sessions[x].status = "Scheduled"
                 THEN sessions'[x] = [sessions[x] EXCEPT !.scheduled_datetime = @ + D]
                 ELSE sessions'[x] = sessions[x]]_vars

\* a cascade has shifted a later session while another batch has sessions
C4_Witness ==
  /\ last.op = "rescheduleCascade"
  /\ last.code = 200
  /\ last.cascaded >= 1
  /\ \E y \in SessionIds : sessions[y].batch_id # sessions[last.id].batch_id

\* C5: in the cascade policy the moved session keeps its session_number and
\* its status stays Scheduled; only its scheduled_datetime changes.
C5_CascadeKeepsScheduled ==
  [][\A id \in SessionIds, t \in FreeTimes, r \in Reasons :
        (sessions[id].status = "Scheduled" /\ RescheduleCascade(id, t, r)) =>
           /\ sessions'[id].session_number = sessions[id].session_number
           /\ sessions'[id].status = "Scheduled"]_vars

\* C6: after a supersede-and-append reschedule exactly one additional session
\* exists in the batch, numbered old_max + 1 with the topic and tutor of the
\* original, the original is Rescheduled, and no session_number is reused.
C6_SupersedeAppends ==
  [][\A id \in SessionIds, t \in NewTimes, r \in Reasons :
        (RescheduleSession(id, t, r) /\ last'.code = 200) =>
           LET b == sessions[id].batch_id
               old == BatchSessions(sessions, b)
               old_max == CHOOSE n \in {sessions[x].session_number : x \in old} :
                             \A x \in old : sessions[x].session_number <= n
               new == BatchSessions(sessions', b) \ old
           IN /\ Cardinality(new) = 1
              /\ \A x \in new :
                    /\ sessions'[x].session_number = old_max + 1
                    /\ sessions'[x].curriculum_topic = sessions[id].curriculum_topic
                    /\ sessions'[x].assigned_tutor_id = sessions[id].assigned_tutor_id
              /\ sessions'[id].status = "Rescheduled"
              /\ \A x \in old : sessions'[x].session_number = sessions[x].session_number]_vars

\* C7: a single-session reschedule of S to newDateTime is rejected with a
\* scheduling-conflict error and changes no session whenever another session
\* of the same tutor lies in the window [newDateTime - 30 min, newDateTime +
\* 90 min].  The other session is taken to be one the conflict checker counts
\* (Scheduled or Completed), the weakest reading of the claim.
C7_ConflictRejects ==
  [][\A id \in SessionIds, t \in AllTimes, r \in Reasons :
        ( /\ RescheduleSession(id, t, r) \/ RescheduleCascade(id, t, r)
          /\ \E x \in SessionIds \ {id} :
                /\ sessions[x].assigned_tutor_id = sessions[id].assigned_tutor_id
                /\ sessions[x].status \in {"Scheduled", "Completed"}
                /\ InWindow(sessions[x].scheduled_datetime, t) )
        => (last'.code = 400 /\ sessions' = sessions)]_vars

\* C8: the conflict check is true if and only if some existing session of the
\* tutor with status Scheduled or Completed lies in [candidate - 30 min,
\* candidate + 90 min]; Rescheduled and Cancelled sessions never make it
\* true.  Stated of the check the reschedule route takes (the moved session's
\* own record left out) and of the scheduling service's check.
C8_ConflictIff ==
  [][\A id \in SessionIds, t \in NewTimes, r \in Reasons :
        RescheduleSession(id, t, r) =>
           /\ (last'.code = 400) <=>
                 \E x \in SessionIds \ {id} :
                    /\ sessions[x].assigned_tutor_id = sessions[id].assigned_tutor_id
                    /\ sessions[x].status \in {"Scheduled", "Completed"}
                    /\ InWindow(sessions[x].scheduled_datetime, t)
           /\ hasTutorConflict(sessions, t, sessions[id].assigned_tutor_id) <=>
                 \E x \in SessionIds :
                    /\ sessions[x].assigned_tutor_id = sessions[id].assigned_tutor_id
                    /\ sessions[x].status \in {"Scheduled", "Completed"}
                    /\ InWindow(sessions[x].scheduled_datetime, t)]_vars

\* C9: after a reschedule has moved session A of a tutor to T, the next
\* reschedule of another session B of that tutor to T' with T inside
\* [T' - 30 min, T' + 90 min] is rejected.
C9_NoDoubleBooking ==
  [][\A b \in SessionIds, t \in NewTimes, r \in Reasons :
        ( /\ last.op = "reschedule"
          /\ last.code = 200
          /\ b # last.id
          /\ sessions[b].assigned_tutor_id = sessions[last.id].assigned_tutor_id
          /\ InWindow(sessions[last.id].scheduled_datetime, t)
          /\ RescheduleSession(b, t, r) )
        => last'.code = 400]_vars

\* C10: markAttendance on a Scheduled session sets status Completed and stores
\* the attendance map; on a Completed, Cancelled or Rescheduled session it
\* changes neither status nor attendance.
C10_AttendanceFromScheduledOnly ==
  [][\A id \in SessionIds, a \in Attendances :
        (MarkAttendance(id, a) \/ TutorMarkAttendance(sessions[id].assigned_tutor_id, id, a)) =>
           IF sessions[id].status = "Scheduled"
           THEN sessions'[id].status = "Completed" /\ sessions'[id].attendance = a
           ELSE /\ sessions'[id].status = sessions[id].status
                /\ sessions'[id].attendance = sessions[id].attendance]_vars

\* C11: cancel on a session whose status is Completed fails with an error
\* response (400) and leaves the session, its status and notes included,
\* unchanged.
C11_CancelCompletedRejected ==
  [][\A id \in SessionIds, r \in Reasons :
        ( /\ last'.op = "cancel"
          /\ sessions[id].status = "Completed"
          /\ CancelSession(id, r) )
        => (last'.code = 400 /\ sessions'[id] = sessions[id])]_vars

\* a cancel of a Completed session has been answered
C11_Witness ==
  /\ last.op = "cancel"
  /\ last.code = 400
  /\ last.id \in SessionIds
  /\ sessions[last.id].status = "Completed"

\* C12: cancel on a session whose status is already Cancelled fails with an
\* error response and leaves the session (status and notes) unchanged, so a
\* second cancel does not record its reason again.
C12_CancelCancelledRejected ==
  [][\A id \in SessionIds, r \in Reasons :
        ( /\ last'.op = "cancel"
          /\ sessions[id].status = "Cancelled"
          /\ CancelSession(id, r) )
        => (last'.code = 400 /\ sessions'[id] = sessions[id])]_vars

\* C13: a reschedule, in either revision of the route, of a session whose
\* status is Completed or Cancelled fails with an error response and changes
\* neither that session nor any other session of its batch.
C13_RescheduleFinishedRejected ==
  [][\A id \in SessionIds, t \in AllTimes, r \in Reasons :
        ( /\ last'.op \in {"reschedule", "rescheduleCascade"}
          /\ sessions[id].status \in {"Completed", "Cancelled"}
          /\ RescheduleSession(id, t, r) \/ RescheduleCascade(id, t, r) )
        => /\ last'.code = 400
           /\ \A x \in BatchSessions(sessions, sessions[id].batch_id) :
                 sessions'[x] = sessions[x]]_vars

\* the instants of a generated sequence, in order
datesOf(seq) == [i \in 1..Len(seq) |-> seq[i].scheduled_datetime]

\* C14: generation never drops a session because of a tutor conflict: the
\* generated instants are the same whether or not the tutor has other
\* sessions, a session at a conflicting pattern date included.
C14_ConflictNeverDrops ==
  gen.revision = "service" =>
     LET free == generateBatchSessions(<<>>, 0, gen.start_date, gen.session_count,
                                       gen.schedule, gen.tutor_id, Courses.c1.curriculum,
                                       gen.now)
     IN /\ gen.ok = free.ok
        /\ datesOf(gen.sessions) = datesOf(free.sessions)

\* C17: each calendar day yields at most one generated session of a batch,
\* also when the weekly pattern has several entries for one weekday.
C17_OneSessionPerDay ==
  gen.revision # "none" =>
     \A i, j \in 1..Len(gen.sessions) :
        i # j => DayOf(gen.sessions[i].scheduled_datetime)
                    # DayOf(gen.sessions[j].scheduled_datetime)

\* C19: the date resolution is deterministic: the same (startDate, pattern,
\* targetCount) gives the same sequence of instants at every current time.
C19_IndependentOfNow ==
  gen.revision = "service" =>
     \A now \in GenNows :
        LET other == generateBatchSessions(sessions, 0, gen.start_date, gen.session_count,
                                           gen.schedule, gen.tutor_id,
                                           Courses.c1.curriculum, now)
        IN /\ gen.ok = other.ok
           /\ datesOf(gen.sessions) = datesOf(other.sessions)

\* C20: every generated session has session_number equal to its 1-based
\* position, curriculum_topic equal to the course curriculum entry of that
\* position if there is one and 'Session <position>' otherwise, the supplied
\* tutor, and status Scheduled.
C20_NumberTopicTutorStatus ==
  gen.revision # "none" =>
     \A i \in 1..Len(gen.sessions) :
        LET cur == Courses.c1.curriculum
            entries == {k \in 1..Len(cur) : cur[k].session = i}
        IN /\ gen.sessions[i].session_number = i
           /\ IF entries # {}
              THEN \E k \in entries : gen.sessions[i].curriculum_topic = cur[k].topic
              ELSE gen.sessions[i].curriculum_topic = <<"Session", i>>
           /\ gen.sessions[i].assigned_tutor_id = gen.tutor_id
           /\ gen.sessions[i].status = "Scheduled"

\* the request that created batch b has been answered
Answered(b) ==
  \A r \in DOMAIN reqs : reqs[r].batch_id = b => reqs[r].pc \in {"done", "failed"}

\* C15: batch creation is atomic: once a creation request has been answered,
\* with success or after a failure of generation or persistence, its batch
\* exists together with all of its intended sessions or not at all.
C15_CreationAtomic ==
  \A b \in DOMAIN batches :
     Answered(b) => Cardinality(BatchSessions(sessions, b)) = batches[b].total_sessions

\* C16: batch_number is unique within a course and increases with creation
\* order, for every interleaving of creation requests for the course.
C16_BatchNumberIncreasing ==
  \A b1, b2 \in DOMAIN batches :
     (b1 < b2 /\ batches[b1].course_id = batches[b2].course_id)
        => batches[b1].batch_number < batches[b2].batch_number

\* C18: session generation always terminates: it returns targetCount
\* sessions or fails with an error, also for an empty pattern, a pattern
\* time outside business hours, or a tutor with conflicts.
C18_GenerationTerminates ==
  <>( /\ gen.revision \in {"loop", "service"}
      /\ ~gen.ok \/ Len(gen.sessions) = gen.session_count )

\* C21: a failed cascade reschedule leaves no partial update: when the update
\* of a subsequent session fails, every session of the batch, the moved one
\* included, is as before the call.
C21_FailedCascadeChangesNothing ==
  [][\A id \in SessionIds, t \in FreeTimes, r \in Reasons, done \in SUBSET SessionIds :
        (last'.code = 500 /\ RescheduleCascadeFails(id, t, r, done)) =>
           \A x \in BatchSessions(sessions, sessions[id].batch_id) :
              sessions'[x] = sessions[x]]_vars

\* C22: reactivating a batch whose status is not Completed fails with an
\* invalid-transition error and changes no batch or session record.
C22_ReactivateNotCompletedRejected ==
  [][\A id \in DOMAIN batches :
        (/\ last'.op = "updateBatch"
         /\ batches[id].status # "Completed"
         /\ UpdateBatch(id, [status |-> "Active"])) =>
           /\ last'.code = 400
           /\ batches' = batches
           /\ sessions' = sessions]_vars

\* C23: when a batch's status is set to Completed, every session of the batch
\* that is Scheduled at a future time becomes Completed, so right after the
\* operation the batch has no future Scheduled session.
C23_CompletedBatchHasNoFutureScheduled ==
  [][\A id \in DOMAIN batches, now \in Nows :
        (/\ last'.op = "updateBatch"
         /\ UpdateBatch(id, [status |-> "Completed"])) =>
           \A x \in BatchSessions(sessions', id) :
              ~(/\ sessions'[x].status = "Scheduled"
                /\ sessions'[x].scheduled_datetime > now)]_vars

\* C24: the progress totals of a batch leave out superseded sessions: the
\* reported total is the number of its sessions whose status is not
\* Rescheduled, and the reported completed count is the number Completed.
C24_TotalsExcludeRescheduled ==
  \A b \in DOMAIN batches :
     /\ totalSessions(sessions, b) =
           Cardinality({x \in BatchSessions(sessions, b) :
                          sessions[x].status # "Rescheduled"})
     /\ completedSessions(sessions, b) =
           Cardinality({x \in BatchSessions(sessions, b) :
                          sessions[x].status = "Completed"})

\* C25: after every successful attendance marking, cancel or reschedule the
\* stored progress summary of each batch counts the batch's Completed
\* sessions.
C25_StoredProgressConsistent ==
  (/\ last.op \in {"attendance", "tutorAttendance", "cancel", "reschedule",
                   "rescheduleCascade"}
   /\ last.code = 200) =>
     \A b \in DOMAIN batches :
        batches[b].progress.completed_sessions =
          Cardinality({x \in BatchSessions(sessions, b) :
                         sessions[x].status = "Completed"})

\* C26: the rate answered by the admin attendance route is present / total as
\* an integer percent rounded to the nearest integer, 0 for an empty map; for
\* {studentA present, studentB absent} it is 50; the session becomes Completed.
C26_AttendanceRate ==
  [][\A id \in SessionIds, f \in AttendanceMaps :
        (last'.op = "attendance" /\ MarkAttendance(id, entriesOf(f))) =>
           LET total == Cardinality(DOMAIN f)
               present == Cardinality({k \in DOMAIN f : f[k] = "present"})
               rate == last'.rate
               off == 100 * present - rate * total
           IN /\ sessions'[id].status = "Completed"
              /\ sessions'[id].attendance = entriesOf(f)
              /\ total = 0 => rate = 0
              /\ total > 0 => /\ 2 * off <= total
                              /\ 2 * (0 - off) <= total
              /\ (DOMAIN f = {"studentA", "studentB"}
                    /\ f["studentA"] = "present" /\ f["studentB"] = "absent")
                   => rate = 50]_vars

C26_Witness ==
  /\ last.op = "attendance"
  /\ last.code = 200
  /\ last.rate = 50
  /\ sessions[last.id].status = "Completed"
  /\ sessions[last.id].attendance =
        {<<"studentA", "present">>, <<"studentB", "absent">>}

\* C27: a successful cancel changes only the session's status, to Cancelled,
\* and its notes: the notes already present stay in front and one entry with
\* the reason follows them; every other field of the session and every other
\* session are unchanged.
C27_CancelFrame ==
  [][\A id \in SessionIds, r \in Reasons :
        (last'.op = "cancel" /\ last'.code = 200 /\ CancelSession(id, r)) =>
           LET old == sessions[id]
               new == sessions'[id]
               n == Len(old.tutor_notes)
           IN /\ new.status = "Cancelled"
              /\ Len(new.tutor_notes) = n + 1
              /\ SubSeq(new.tutor_notes, 1, n) = old.tutor_notes
              /\ new.tutor_notes[n + 1][1] = "Cancelled"
              /\ r # "" => new.tutor_notes[n + 1][2] = r
              /\ \A f \in DOMAIN old \ {"status", "tutor_notes"} : new[f] = old[f]
              /\ DOMAIN sessions' = DOMAIN sessions
              /\ \A x \in SessionIds \ {id} : sessions'[x] = sessions[x]
              /\ batches' = batches]_vars

C27_Witness ==
  /\ last.op = "cancel"
  /\ last.code = 200
  /\ sessions[last.id].status = "Cancelled"
  /\ Len(sessions[last.id].tutor_notes) = 2
  /\ sessions[last.id].tutor_notes[1] = <<"note">>
  /\ sessions[last.id].tutor_notes[2] = <<"Cancelled", "sick">>

\* C28: every session the scheduling service generates lies inside business
\* hours, from 9 AM to 9 PM and not after 21:00, and on no listed holiday.
C28_BusinessHoursAndHolidays ==
  gen.revision = "service" =>
     \A i \in 1..Len(gen.sessions) :
        LET t == gen.sessions[i].scheduled_datetime
        IN /\ TimeOfDay(t) >= OpenHour * MinPerHour
           /\ TimeOfDay(t) <= CloseHour * MinPerHour
           /\ ~isHoliday(t)

C30_EnrollmentCapacity ==
  \A b \in DOMAIN batches :
     /\ Cardinality(activeEnrollments(enrollments, b)) <= batches[b].max_students
     /\ \A i, j \in activeEnrollments(enrollments, b) :
           enrollments[i].student_id = enrollments[j].student_id => i = j

====
